---- MODULE Spec2Model ----
(***************************************************************************)
(* A model of the accounting core of django-simple-accounting             *)
(* (src/accounting/models.py): the store's tables are the state, every    *)
(* save / tree operation / property of the models is an action or an      *)
(* operator translated from its code.                                     *)
(*                                                                         *)
(* Conventions.                                                            *)
(*  - A row is a record; a table is a set of rows; primary keys are        *)
(*    positive integers handed out as max(pk) + 1 (the sqlite backend of   *)
(*    src/accounting/tests/settings.py); None (0) is a null reference.     *)
(*  - Strings that are parsed (account names, paths) are sequences of      *)
(*    one-character strings, so that concatenation, trimming and splitting *)
(*    are computed, not assumed.                                           *)
(*  - An operation that raises leaves the store as it was and records the  *)
(*    exception in last.err; last.op names the operation that ran last.    *)
(*  - Model.full_clean() is Django's: it rejects a blank value of a field  *)
(*    declared without blank=True, runs clean(), and checks every          *)
(*    unique_together tuple none of whose values is None.                  *)
(***************************************************************************)
EXTENDS Integers, Sequences, FiniteSets, TLC

VARIABLES
    subjects,       \* Subject rows: the set of their primary keys
    systems,        \* AccountSystem rows: [id, owner]
    accounts,       \* Account rows: [id, system, parent, name, kind, placeholder]
    flows,          \* CashFlow rows: [id, account, amount]
    trajectories,   \* Trajectory rows: [id, entry_point, exit_point, target]
    transactions,   \* Transaction rows: [id, issuer, source, split_set]
    entries,        \* LedgerEntry rows: [id, account, transaction, entry_id, amount]
    writers,        \* concurrent LedgerEntry.save calls: [w -> [pc, account, next_id]]
    arg,            \* the input of the pure-function specifications
    last,           \* the operation that ran last: [op, err, res]
    invoices,       \* Invoice instances: [id, issuer, recipient, status, is_payed]
    hooks,          \* the calls of make_transactions_for_invoice_payment, in order
    subjective_models,  \* the registry accounting.subjective_models
    marked,         \* the models economic_subject was applied to
    receivers,      \* the connected receiver pairs, as many entries as are alive
    instances,      \* the stored instances of the models: [model, pk]
    subject_instance    \* Subject rows' generic key: [subject, content_type, object_id]

vars == <<subjects, systems, accounts, flows, trajectories, transactions,
          entries, writers, arg, last, invoices, hooks, subjective_models,
          marked, receivers, instances, subject_instance>>

treeVars == <<subjects, systems, accounts>>
moneyVars == <<flows, trajectories, transactions>>
invoiceVars == <<invoices, hooks>>
subjectiveVars ==
    <<subjective_models, marked, receivers, instances, subject_instance>>

-----------------------------------------------------------------------------
(* Bounds of the model                                                     *)

MaxSubjects == 3
MaxAccounts == 4
MaxPathLen == 5
MaxKey == 4
MaxMoneyRows == 4
MaxWriters == 2
MaxAccountKey == 6
MaxInitSubjects == 2
MaxInstances == 3
MaxInvoices == 2
MaxHooks == 1
MaxTreeAccounts == 3
MaxAssigned == 2

-----------------------------------------------------------------------------
(* Constants of the program                                                *)

None == 0

\* accounting.consts.ACCOUNT_PATH_SEPARATOR, as the docstrings and tests use it
ACCOUNT_PATH_SEPARATOR == "/"

ROOT == "ROOT"
INCOME == "INCOME"
EXPENSE == "EXPENSE"
ASSET == "ASSET"
LIABILITY == "LIABILITY"

BASE_ACCOUNT_TYPES == {ROOT, INCOME, EXPENSE, ASSET, LIABILITY}

\* the exceptions the operations raise
NoError == ""
ValidationError == "ValidationError"
ValueError == "ValueError"
DoesNotExist == "DoesNotExist"
IntegrityError == "IntegrityError"
AttributeError == "AttributeError"
MalformedAccountTree == "MalformedAccountTree"
MalformedPathString == "MalformedPathString"
InvalidAccountingOperation == "InvalidAccountingOperation"
TypeError == "TypeError"
SubjectiveAPIError == "SubjectiveAPIError"
MultipleObjectsReturned == "MultipleObjectsReturned"

-----------------------------------------------------------------------------
(* Helpers                                                                 *)

Max(S) == CHOOSE x \in S : \A y \in S : y <= x

Min(S) == CHOOSE x \in S : \A y \in S : x <= y

\* the primary key the store gives the next row of a table
NextId(table) == IF table = {} THEN 1 ELSE Max({r.id : r \in table}) + 1

Row(table, id) == CHOOSE r \in table : r.id = id

Ok(v) == [err |-> NoError, val |-> v]

Raise(e) == [err |-> e, val |-> None]

Did(op, e, r) == [op |-> op, err |-> e, res |-> r]

-----------------------------------------------------------------------------
(* AccountType                                                             *)

\* Python values: an integer, and the text that spells an integer; the two
\* are never equal
PyInt(n) == [type |-> "int", value |-> n]
PyStr(n) == [type |-> "str", value |-> n]

\* what a CharField stores and gives back for a value: its text
to_text(v) == PyStr(v.value)

\* (ROOT, INCOME, EXPENSE, ASSET, LIABILITY) = range(0,5): the base type of
\* each of the five basic account types
base_type_of(name) ==
    CASE name = ROOT -> 0
      [] name = INCOME -> 1
      [] name = EXPENSE -> 2
      [] name = ASSET -> 3
      [] name = LIABILITY -> 4

\* AccountType.is_stock, of an AccountType instance: [name, base_type]
is_stock(at) ==
    at.base_type \in {PyInt(base_type_of(ASSET)), PyInt(base_type_of(LIABILITY))}

\* AccountType.is_flux
is_flux(at) ==
    at.base_type \in {PyInt(base_type_of(INCOME)), PyInt(base_type_of(EXPENSE))}

\* AccountType.normalize_account_type_name: name.upper(), on the names used
normalize_account_type_name(name) ==
    CASE name = "cash" -> "CASH"
      [] name = "bank" -> "BANK"
      [] OTHER -> name

\* AccountType.objects.create(name=name, base_type=base): the instance the
\* caller gets keeps the value it was built with
account_type_create(name, base) ==
    [name |-> normalize_account_type_name(name), base_type |-> PyInt(base)]

\* the instance read back from the store: base_type is a CharField
account_type_reload(at) == [at EXCEPT !.base_type = to_text(at.base_type)]

\* the stored instance of a basic account type, as Account.kind yields it
account_type_get(name) ==
    account_type_reload(account_type_create(name, base_type_of(name)))

-----------------------------------------------------------------------------
(* Strings                                                                 *)

RECURSIVE lstrip(_)
lstrip(s) == IF s # <<>> /\ Head(s) = " " THEN lstrip(Tail(s)) ELSE s

RECURSIVE rstrip(_)
rstrip(s) ==
    IF s # <<>> /\ s[Len(s)] = " " THEN rstrip(SubSeq(s, 1, Len(s) - 1)) ELSE s

\* str.strip(): the string without its leading and trailing whitespace
strip(s) == rstrip(lstrip(s))

\* str.split(sep): the components between the occurrences of sep
RECURSIVE split(_, _)
split(s, sep) ==
    IF \A i \in 1..Len(s) : s[i] # sep
    THEN <<s>>
    ELSE LET i == Min({j \in 1..Len(s) : s[j] = sep})
         IN  <<SubSeq(s, 1, i - 1)>> \o split(SubSeq(s, i + 1, Len(s)), sep)

-----------------------------------------------------------------------------
(* The account tree                                                        *)

AccountIds == {a.id : a \in accounts}

SystemIds == {s.id : s \in systems}

\* AccountSystem.accounts
system_accounts(s) == {a \in accounts : a.system = s}

\* Account.is_root
is_root(a) == a.parent = None

\* AccountSystem.root: the first parentless account of the system, in the
\* store's primary-key order; MalformedAccountTree if there is none
system_root(s) ==
    LET roots == {a.id : a \in {b \in system_accounts(s) : is_root(b)}}
    IN  IF roots = {} THEN Raise(MalformedAccountTree) ELSE Ok(Min(roots))

\* Account.get_child
get_child(p, name) ==
    LET found == {a.id : a \in {b \in accounts : b.parent = p /\ b.name = name}}
    IN  IF found = {} THEN Raise(DoesNotExist) ELSE Ok(Min(found))

\* Account.path: the root has the separator as its path; for any other
\* account the code calls Account.path(self.parent), and Account.path, read
\* on the class, is the property object, which cannot be called
path(id) ==
    IF is_root(Row(accounts, id)) THEN Ok(<<ACCOUNT_PATH_SEPARATOR>>)
    ELSE Raise(TypeError)

\* the walk of accounting.utils.get_account_from_path down the components
RECURSIVE traverse(_, _)
traverse(cur, comps) ==
    IF comps = <<>> THEN Ok(cur)
    ELSE LET c == get_child(cur, Head(comps))
         IN  IF c.err # NoError THEN c ELSE traverse(c.val, Tail(comps))

\* accounting.utils.get_account_from_path(path, root)
get_account_from_path(p, root) ==
    LET q == strip(p)
    IN  IF q = <<>> \/ Head(q) # ACCOUNT_PATH_SEPARATOR
        THEN Raise(MalformedPathString)
        ELSE IF q = <<ACCOUNT_PATH_SEPARATOR>> THEN Ok(root)
        ELSE LET comps == split(Tail(q), ACCOUNT_PATH_SEPARATOR)
             IN  IF \E i \in 1..Len(comps) : comps[i] = <<>>
                 THEN Raise(MalformedPathString)
                 ELSE traverse(root, comps)

\* the root looked up too late: the path is parsed whether or not a root exists
getitem_unrooted(s, p) == get_account_from_path(p, system_root(s).val)

\* AccountSystem.__getitem__
getitem(s, p) ==
    LET r == system_root(s)
    IN  IF r.err # NoError THEN r ELSE get_account_from_path(p, r.val)

\* Account.clean
clean_account(acc) ==
    IF acc.parent # None /\ acc.system # Row(accounts, acc.parent).system
    THEN ValidationError ELSE NoError

\* the uniqueness check forgotten: what a model without Meta.unique_together does
unique_together_account_dropped(acc) == NoError

\* Account.Meta.unique_together = ('parent', 'name'), as full_clean() and the
\* store check it: a tuple holding None is never checked
unique_together_account(acc) ==
    IF acc.parent # None
       /\ \E o \in accounts :
              o.id # acc.id /\ o.parent = acc.parent /\ o.name = acc.name
    THEN ValidationError ELSE NoError

\* Account.full_clean(), called by Account.save
full_clean_account(acc) ==
    IF acc.name = <<>> THEN ValidationError
    ELSE IF clean_account(acc) # NoError THEN clean_account(acc)
    ELSE unique_together_account(acc)

\* Model.save(): insert a new row, or overwrite the row of the instance
store_account(acc) ==
    IF acc.id = None
    THEN accounts \cup {[acc EXCEPT !.id = NextId(accounts)]}
    ELSE {a \in accounts : a.id # acc.id} \cup {acc}

\* Account.save: [err, tbl], the exception and the table after the call
save_account(acc) ==
    LET e == full_clean_account(acc)
    IN  IF e # NoError THEN [err |-> e, tbl |-> accounts]
        ELSE [err |-> NoError, tbl |-> store_account(acc)]

\* the test for a child of that name forgotten: the account is saved at once
add_child_unchecked(p, acc) == save_account([acc EXCEPT !.parent = p])

\* Account.add_child
add_child(p, acc) ==
    IF get_child(p, acc.name).err = NoError
    THEN [err |-> ValueError, tbl |-> accounts]
    ELSE save_account([acc EXCEPT !.parent = p])

\* AccountSystem.__setitem__
setitem(s, p, acc) ==
    LET r == getitem(s, p)
    IN  IF r.err # NoError THEN [err |-> r.err, tbl |-> accounts]
        ELSE add_child(r.val, acc)

-----------------------------------------------------------------------------
(* Operations on the account tree                                          *)

Names == {<<"a">>, <<"b">>}

\* the names a caller may pass: the blank name is one of them
NameInputs == Names \cup {<<>>}

\* the paths a caller may pass to the tree operations
TreePaths == {<<"/">>, <<"/", "a">>, <<"a">>}

\* Account(system=sys, name=name, kind=kind): an instance not saved yet
NewAccount(sys, name, kind, placeholder) ==
    [id |-> None, system |-> sys, parent |-> None, name |-> name,
     kind |-> kind, placeholder |-> placeholder]

\* Account(system=sys, parent=parent, name=name, kind=asset).save()
AccountSave(sys, parent, name) ==
    /\ LET acc == [NewAccount(sys, name, ASSET, FALSE) EXCEPT !.parent = parent]
           r == save_account(acc)
       IN  /\ Cardinality(r.tbl) <= MaxAccounts
           /\ accounts' = r.tbl
    /\ UNCHANGED <<subjects, systems, moneyVars, entries, writers, arg, last,
                   invoiceVars, subjectiveVars>>

\* parent.add_child(account), the account a new instance or a stored one
AddChild(p, acc) ==
    /\ LET r == add_child(p, acc)
       IN  /\ Cardinality(r.tbl) <= MaxAccounts
           /\ accounts' = r.tbl
    /\ UNCHANGED <<subjects, systems, moneyVars, entries, writers, arg, last,
                   invoiceVars, subjectiveVars>>

\* system[path] = account
SetItem(s, p, acc) ==
    /\ LET r == setitem(s, p, acc)
       IN  /\ Cardinality(r.tbl) <= MaxAccounts
           /\ accounts' = r.tbl
    /\ UNCHANGED <<subjects, systems, moneyVars, entries, writers, arg, last,
                   invoiceVars, subjectiveVars>>

\* AccountSystem.add_root_account
add_root_account(s) ==
    IF \E a \in system_accounts(s) : is_root(a)
    THEN [err |-> InvalidAccountingOperation, tbl |-> accounts]
    ELSE [err |-> NoError,
          tbl |-> store_account(NewAccount(s, <<>>, ROOT, TRUE))]

AddRootAccount(s) ==
    /\ LET r == add_root_account(s)
       IN  /\ Cardinality(r.tbl) <= MaxAccounts
           /\ accounts' = r.tbl
    /\ UNCHANGED <<subjects, systems, moneyVars, entries, writers, arg, last,
                   invoiceVars, subjectiveVars>>

\* AccountSystem.add_account(parent_path, name, kind, is_placeholder)
add_account(s, parent_path, name, kind, placeholder) ==
    LET r == getitem(s, parent_path)
    IN  IF r.err # NoError THEN [err |-> r.err, tbl |-> accounts]
        ELSE IF get_child(r.val, name).err = NoError
        THEN [err |-> InvalidAccountingOperation, tbl |-> accounts]
        ELSE [err |-> NoError,
              tbl |-> store_account(
                  [NewAccount(s, name, kind, placeholder) EXCEPT !.parent = r.val])]

AddAccount(s, parent_path, name) ==
    /\ LET r == add_account(s, parent_path, name, ASSET, FALSE)
       IN  /\ Cardinality(r.tbl) <= MaxAccounts
           /\ accounts' = r.tbl
    /\ UNCHANGED <<subjects, systems, moneyVars, entries, writers, arg, last,
                   invoiceVars, subjectiveVars>>

\* the second top-level account forgotten: the root and /incomes only
initial_accounts_short(s) ==
    LET n == NextId(accounts)
    IN  {[id |-> n, system |-> s, parent |-> None, name |-> <<>>,
          kind |-> ROOT, placeholder |-> TRUE],
         [id |-> n + 1, system |-> s, parent |-> n,
          name |-> <<"i", "n", "c", "o", "m", "e", "s">>,
          kind |-> INCOME, placeholder |-> TRUE]}

\* the accounts Subject.init_accounting_system creates in the new system s
initial_accounts(s) ==
    LET n == NextId(accounts)
    IN  {[id |-> n, system |-> s, parent |-> None, name |-> <<>>,
          kind |-> ROOT, placeholder |-> TRUE],
         [id |-> n + 1, system |-> s, parent |-> n,
          name |-> <<"i", "n", "c", "o", "m", "e", "s">>,
          kind |-> INCOME, placeholder |-> TRUE],
         [id |-> n + 2, system |-> s, parent |-> n,
          name |-> <<"e", "x", "p", "e", "n", "s", "e", "s">>,
          kind |-> EXPENSE, placeholder |-> TRUE]}

\* Subject.init_accounting_system
InitAccountingSystem(subj) ==
    /\ IF \E s \in systems : s.owner = subj
       THEN UNCHANGED <<systems, accounts>>
       ELSE /\ Cardinality(accounts \cup initial_accounts(None)) <= MaxAccounts
            /\ systems' = systems \cup {[id |-> NextId(systems), owner |-> subj]}
            /\ accounts' = accounts \cup initial_accounts(NextId(systems))
    /\ UNCHANGED <<subjects, moneyVars, entries, writers, arg, last,
                   invoiceVars, subjectiveVars>>

\* the instances a caller may hand to add_child and __setitem__
AccountInstances ==
    accounts \cup {NewAccount(s, n, ASSET, FALSE) : s \in SystemIds, n \in Names}

NoWriters == <<>>

Nothing == Did("", NoError, None)

\* an accounting system that holds its root account and nothing else
BareSystems(owners) == {[id |-> o, owner |-> o] : o \in owners}

BareRoots(owners) ==
    {[NewAccount(o, <<>>, ROOT, TRUE) EXCEPT !.id = o] : o \in owners}

\* the store once three subjects exist, one of them with an accounting
\* system made of its root account
Init ==
    /\ subjects = 1..MaxSubjects
    /\ systems = BareSystems({1})
    /\ accounts = BareRoots({1})
    /\ flows = {}
    /\ trajectories = {}
    /\ transactions = {}
    /\ entries = {}
    /\ writers = NoWriters
    /\ invoices = {}
    /\ hooks = <<>>
    /\ subjective_models = {}
    /\ marked = {}
    /\ receivers = 0
    /\ instances = {}
    /\ subject_instance = {}
    /\ arg = None
    /\ last = Nothing

Next ==
    \/ \E subj \in subjects : InitAccountingSystem(subj)
    \/ \E s \in SystemIds : AddRootAccount(s)
    \/ \E s \in SystemIds, p \in TreePaths, n \in Names : AddAccount(s, p, n)
    \/ \E s \in SystemIds, p \in AccountIds \cup {None}, n \in NameInputs :
           AccountSave(s, p, n)
    \/ \E p \in AccountIds, acc \in AccountInstances : AddChild(p, acc)
    \/ \E s \in SystemIds, p \in TreePaths, acc \in AccountInstances :
           SetItem(s, p, acc)

Spec == Init /\ [][Next]_vars

-----------------------------------------------------------------------------
(* The claims about the account tree, under Spec                           *)

Roots(s) == {a \in system_accounts(s) : is_root(a)}

\* C2: every accounting system has exactly one account whose parent is none,
\* whatever tree operations have run.
C2_SingleRoot == \A s \in SystemIds : Cardinality(Roots(s)) = 1

\* C3: no two accounts that have the same parent account have the same name.
C3_SiblingNamesUnique ==
    \A a \in accounts, b \in accounts :
        (a.id # b.id /\ a.parent # None /\ a.parent = b.parent) => a.name # b.name

\* two children of one account, and the name of one of them used again under
\* another parent
C3_Witness ==
    \E a \in accounts, b \in accounts, c \in accounts :
        /\ a.id # b.id /\ a.parent # None /\ a.parent = b.parent
        /\ c.parent # None /\ c.parent # a.parent /\ c.name = a.name

\* C4: looking up the path of an account in the account's system returns the
\* account, for the root and for every other account.
C4_PathRoundTrip ==
    \A a \in accounts :
        LET p == path(a.id)
        IN  /\ p.err = NoError
            /\ LET r == getitem(a.system, p.val)
               IN  r.err = NoError /\ r.val = a.id

-----------------------------------------------------------------------------
(* Path lookup as a function of the path string: SpecPath                  *)

Alphabet == {ACCOUNT_PATH_SEPARATOR, "a", "b", " "}

\* every string of at most MaxPathLen characters
PathStrings == UNION {[1..n -> Alphabet] : n \in 0..MaxPathLen}

Child(id, sys, parent, name) ==
    [NewAccount(sys, name, ASSET, FALSE) EXCEPT !.id = id, !.parent = parent]

\* System 1 is the tree of AccountSystemTreeNavigationTest.setUp (/a, /b, /a/a,
\* /a/b); system 2 was created and given no account; system 3 holds two
\* parentless accounts, each with a child.
PathSystems == BareSystems({1, 2, 3})

PathAccounts ==
    BareRoots({1})
    \cup {Child(4, 1, 1, <<"a">>), Child(5, 1, 1, <<"b">>),
          Child(6, 1, 4, <<"a">>), Child(7, 1, 4, <<"b">>)}
    \cup {[NewAccount(3, <<>>, ROOT, TRUE) EXCEPT !.id = 8],
          [NewAccount(3, <<"b">>, ASSET, FALSE) EXCEPT !.id = 9],
          Child(10, 3, 8, <<"a">>), Child(11, 3, 9, <<"a">>)}

InitPath ==
    /\ subjects = {1, 2, 3}
    /\ systems = PathSystems
    /\ accounts = PathAccounts
    /\ flows = {}
    /\ trajectories = {}
    /\ transactions = {}
    /\ entries = {}
    /\ writers = NoWriters
    /\ invoices = {}
    /\ hooks = <<>>
    /\ subjective_models = {}
    /\ marked = {}
    /\ receivers = 0
    /\ instances = {}
    /\ subject_instance = {}
    /\ arg \in [system : SystemIds, path : PathStrings]
    /\ last = Nothing

\* system[path], for the system and the path of arg
GetItem ==
    /\ LET r == getitem(arg.system, arg.path)
       IN  last' = Did("AccountSystem.__getitem__", r.err, r.val)
    /\ UNCHANGED <<treeVars, moneyVars, entries, writers, arg,
                   invoiceVars, subjectiveVars>>

NextPath == GetItem

SpecPath == InitPath /\ [][NextPath]_vars

\* the malformed path strings, as the path syntax describes them: empty, not
\* starting with exactly one separator, holding two separators in a row, or
\* ending in a separator without being the bare separator
Malformed(q) ==
    \/ q = <<>>
    \/ q[1] # ACCOUNT_PATH_SEPARATOR
    \/ \E i \in 1..(Len(q) - 1) :
           q[i] = ACCOUNT_PATH_SEPARATOR /\ q[i + 1] = ACCOUNT_PATH_SEPARATOR
    \/ Len(q) > 1 /\ q[Len(q)] = ACCOUNT_PATH_SEPARATOR

LookedUp == last.op = "AccountSystem.__getitem__"

\* what C5 says of the lookup of arg.path in arg.system, given its result
PathSyntax ==
    LET q == strip(arg.path)
    IN  /\ Malformed(q) => last.err = MalformedPathString
        /\ q = <<ACCOUNT_PATH_SEPARATOR>> =>
               /\ last.err = NoError
               /\ \E a \in Roots(arg.system) : a.id = last.res
        /\ LET r == getitem(arg.system, q)
           IN  last.err = r.err /\ last.res = r.val

-----------------------------------------------------------------------------
(* Subjects and their accounting systems: SpecSubject                      *)

\* the accounts deleted with the accounts of D: their descendants (Account.parent)
RECURSIVE with_descendants(_)
with_descendants(D) ==
    LET more == {a \in accounts : a.parent \in {d.id : d \in D}} \ D
    IN  IF more = {} THEN D ELSE with_descendants(D \cup more)

\* the cascade from the systems to their accounts forgotten
delete_systems_alone(S) ==
    [systems |-> {s \in systems : s.id \notin S},
     accounts |-> accounts,
     flows |-> flows,
     trajectories |-> trajectories,
     transactions |-> transactions,
     entries |-> entries]

\* QuerySet.delete() of the accounting systems S: every foreign key of the
\* models cascades (AccountSystem.owner, Account.system, Account.parent,
\* CashFlow.account, Trajectory.entry_point / exit_point / target,
\* Transaction.source, LedgerEntry.account / transaction), and the rows of a
\* deleted trajectory leave every split_set
delete_systems(S) ==
    LET goneA == {a.id : a \in with_descendants({a \in accounts : a.system \in S})}
        goneF == {f.id : f \in {g \in flows : g.account \in goneA}}
        goneT == {t.id : t \in {u \in trajectories :
                     \/ u.target \in goneF
                     \/ u.entry_point \in goneA
                     \/ u.exit_point \in goneA}}
        goneX == {x.id : x \in {y \in transactions : y.source \in goneF}}
    IN  [systems |-> {s \in systems : s.id \notin S},
         accounts |-> {a \in accounts : a.id \notin goneA},
         flows |-> {f \in flows : f.id \notin goneF},
         trajectories |-> {t \in trajectories : t.id \notin goneT},
         transactions |->
             {[x EXCEPT !.split_set = x.split_set \ goneT] :
                  x \in {y \in transactions : y.id \notin goneX}},
         entries |-> {e \in entries :
                         e.account \notin goneA /\ e.transaction \notin goneX}]

\* the AttributeError forgotten: the store's exception reaches the caller
accounting_system_unwrapped(subj) ==
    LET owned == {s.id : s \in {t \in systems : t.owner = subj}}
    IN  IF owned = {} THEN Raise(DoesNotExist) ELSE Ok(Min(owned))

\* Subject.accounting_system
accounting_system(subj) ==
    LET owned == {s.id : s \in {t \in systems : t.owner = subj}}
    IN  IF owned = {} THEN Raise(AttributeError) ELSE Ok(Min(owned))

\* Subject.objects.create(...), as the post_save receiver of economic_subject does
SubjectCreate ==
    /\ Cardinality(subjects) < MaxSubjects
    /\ (IF subjects = {} THEN 1 ELSE Max(subjects) + 1) <= MaxKey
    /\ subjects' = subjects \cup {IF subjects = {} THEN 1 ELSE Max(subjects) + 1}
    /\ last' = Did("Subject.objects.create", NoError, None)
    /\ UNCHANGED <<systems, accounts, moneyVars, entries, writers, arg,
                   invoiceVars, subjectiveVars>>

\* the uniqueness of the owner forgotten: a ForeignKey in place of the OneToOneField
owner_taken_never(subj) == FALSE

\* AccountSystem.owner is a OneToOneField: the store refuses a second system
\* of one owner
owner_taken(subj) == \E s \in systems : s.owner = subj

\* AccountSystem.objects.create(owner=subj): owner is a OneToOneField
AccountSystemCreate(subj) ==
    /\ IF owner_taken(subj)
       THEN /\ UNCHANGED systems
            /\ last' = Did("AccountSystem.objects.create", IntegrityError, None)
       ELSE /\ NextId(systems) <= MaxKey
            /\ systems' = systems \cup {[id |-> NextId(systems), owner |-> subj]}
            /\ last' = Did("AccountSystem.objects.create", NoError, NextId(systems))
    /\ UNCHANGED <<subjects, accounts, moneyVars, entries, writers, arg,
                   invoiceVars, subjectiveVars>>

\* AccountSystem.objects.filter(pk=s).delete()
AccountSystemDelete(s) ==
    /\ LET d == delete_systems({s})
       IN  /\ systems' = d.systems
           /\ accounts' = d.accounts
           /\ flows' = d.flows
           /\ trajectories' = d.trajectories
           /\ transactions' = d.transactions
           /\ entries' = d.entries
    /\ last' = Did("AccountSystem.delete", NoError, None)
    /\ UNCHANGED <<subjects, writers, arg,
                   invoiceVars, subjectiveVars>>

\* subject.accounting_system, read by a caller
AccessAccountingSystem(subj) ==
    /\ LET r == accounting_system(subj)
       IN  last' = Did("Subject.accounting_system", r.err, r.val)
    /\ arg' = subj
    /\ UNCHANGED <<treeVars, moneyVars, entries, writers,
                   invoiceVars, subjectiveVars>>

InitSubject ==
    /\ subjects = {}
    /\ systems = {}
    /\ accounts = {}
    /\ flows = {}
    /\ trajectories = {}
    /\ transactions = {}
    /\ entries = {}
    /\ writers = NoWriters
    /\ invoices = {}
    /\ hooks = <<>>
    /\ subjective_models = {}
    /\ marked = {}
    /\ receivers = 0
    /\ instances = {}
    /\ subject_instance = {}
    /\ arg = None
    /\ last = Nothing

NextSubject ==
    \/ SubjectCreate
    \/ \E subj \in subjects : AccountSystemCreate(subj)
    \/ \E s \in SystemIds : AccountSystemDelete(s)
    \/ \E subj \in subjects : AccessAccountingSystem(subj)

SpecSubject == InitSubject /\ [][NextSubject]_vars

Accessed == last.op = "Subject.accounting_system"

\* C10: reading the accounting system of a subject returns the system that
\* subject owns when there is one, and raises AttributeError when there is
\* none (never created, or deleted).
C10_AccountingSystemAccess ==
    Accessed =>
        IF \E s \in systems : s.owner = arg
        THEN /\ last.err = NoError
             /\ \E s \in systems : s.id = last.res /\ s.owner = arg
        ELSE last.err = AttributeError

\* the access failed for a subject without a system, after a system was
\* deleted: the keys of the stored systems are no longer 1..n
C10_Witness ==
    /\ Accessed
    /\ last.err = AttributeError
    /\ \E s \in systems : s.id > Cardinality(systems)

-----------------------------------------------------------------------------
(* Cash flows, trajectories and transactions: SpecMoney                    *)

FlowIds == {f.id : f \in flows}

TrajectoryIds == {t.id : t \in trajectories}

\* CashFlow.clean
clean_flow(flow) == NoError

\* CashFlow.full_clean(), called by CashFlow.save: account is required
full_clean_flow(flow) ==
    IF flow.account \notin AccountIds THEN ValidationError ELSE clean_flow(flow)

\* Trajectory.clean
clean_trajectory(t) == NoError

\* Trajectory.full_clean(), called by Trajectory.save: target is required,
\* entry_point and exit_point may be null
full_clean_trajectory(t) ==
    IF \/ t.target \notin FlowIds
       \/ t.entry_point \notin AccountIds \cup {None}
       \/ t.exit_point \notin AccountIds \cup {None}
    THEN ValidationError ELSE clean_trajectory(t)

\* Trajectory.is_internal
trajectory_is_internal(t) == t.exit_point = None

\* Trajectory.amount
trajectory_amount(t) == - Row(flows, t.target).amount

\* Transaction.clean
clean_transaction(x) == NoError

\* Transaction.full_clean(), called by Transaction.save: issuer, source and a
\* description that is not blank are required
full_clean_transaction(x, description) ==
    IF \/ description = <<>>
       \/ x.issuer \notin subjects
       \/ x.source \notin FlowIds
    THEN ValidationError ELSE clean_transaction(x)

MoneyRows ==
    Cardinality(flows) + Cardinality(trajectories) + Cardinality(transactions)

\* CashFlow(account=account, amount=amount).save()
CashFlowSave(account, amount) ==
    /\ MoneyRows < MaxMoneyRows
    /\ LET flow == [id |-> NextId(flows), account |-> account, amount |-> amount]
           e == full_clean_flow(flow)
       IN  /\ flows' = IF e = NoError THEN flows \cup {flow} ELSE flows
           /\ last' = Did("CashFlow.save", e, None)
    /\ UNCHANGED <<treeVars, trajectories, transactions, entries, writers, arg,
                   invoiceVars, subjectiveVars>>

\* Trajectory(entry_point=..., exit_point=..., target=...).save()
TrajectorySave(entry_point, exit_point, target) ==
    /\ MoneyRows < MaxMoneyRows
    /\ LET t == [id |-> NextId(trajectories), entry_point |-> entry_point,
                 exit_point |-> exit_point, target |-> target]
           e == full_clean_trajectory(t)
       IN  /\ trajectories' =
                  IF e = NoError THEN trajectories \cup {t} ELSE trajectories
           /\ last' = Did("Trajectory.save", e, None)
    /\ UNCHANGED <<treeVars, flows, transactions, entries, writers, arg,
                   invoiceVars, subjectiveVars>>

\* Transaction(issuer=..., source=..., description=...).save(), of a
\* transaction whose trajectories are split_set; arg keeps what was passed
TransactionSave(issuer, source, split_set, description) ==
    /\ MoneyRows < MaxMoneyRows
    /\ LET x == [id |-> NextId(transactions), issuer |-> issuer,
                 source |-> source, split_set |-> split_set]
           e == full_clean_transaction(x, description)
       IN  /\ transactions' =
                  IF e = NoError THEN transactions \cup {x} ELSE transactions
           /\ last' = Did("Transaction.save", e, None)
           /\ arg' = x
    /\ UNCHANGED <<treeVars, flows, trajectories, entries, writers,
                   invoiceVars, subjectiveVars>>

\* Two accounting systems as the tests' models set them up. System 1: the
\* root, the asset account /w, the placeholder asset account /m and the
\* expense account /e and the asset account /c; system 2: the root, the
\* income account /i and the asset account /w.
MoneySystems == BareSystems({1, 2})

MoneyAccounts ==
    BareRoots({1, 2})
    \cup {Child(3, 1, 1, <<"w">>),
          [Child(4, 1, 1, <<"m">>) EXCEPT !.placeholder = TRUE],
          [Child(5, 1, 1, <<"e">>) EXCEPT !.kind = EXPENSE],
          [Child(6, 2, 2, <<"i">>) EXCEPT !.kind = INCOME],
          Child(7, 2, 2, <<"w">>),
          Child(8, 1, 1, <<"c">>)}

\* the accounts the cash flows of the model are on, the amounts they carry,
\* and the descriptions of the transactions
FlowAccounts == {3, 4, 7, None}
Amounts == {1, 2}
Descriptions == {<<>>, <<"d">>}

InitMoney ==
    /\ subjects = {1, 2}
    /\ systems = MoneySystems
    /\ accounts = MoneyAccounts
    /\ flows = {}
    /\ trajectories = {}
    /\ transactions = {}
    /\ entries = {}
    /\ writers = NoWriters
    /\ invoices = {}
    /\ hooks = <<>>
    /\ subjective_models = {}
    /\ marked = {}
    /\ receivers = 0
    /\ instances = {}
    /\ subject_instance = {}
    /\ arg = None
    /\ last = Nothing

NextMoney ==
    \/ \E a \in FlowAccounts, m \in Amounts : CashFlowSave(a, m)
    \/ \E en \in {None, 6}, ex \in {None, 5}, f \in FlowIds :
           TrajectorySave(en, ex, f)
    \/ \E i \in subjects, f \in FlowIds, d \in Descriptions,
          ss \in (SUBSET TrajectoryIds) \ {{}} : TransactionSave(i, f, ss, d)

SpecMoney == InitMoney /\ [][NextMoney]_vars

RECURSIVE Sum(_, _)
Sum(f(_), S) ==
    IF S = {} THEN 0
    ELSE LET x == CHOOSE y \in S : TRUE IN f(x) + Sum(f, S \ {x})

SplitsOf(x) == {t \in trajectories : t.id \in x.split_set}

\* the accounts a transaction refers to: of its source, and of the target,
\* entry point and exit point of each of its trajectories
AccountsOf(x) ==
    ({Row(flows, x.source).account}
     \cup UNION {{Row(flows, t.target).account, t.entry_point, t.exit_point} :
                    t \in SplitsOf(x)}) \ {None}

\* C1: every stored transaction conserves money: the amount of its source
\* plus the amounts of its trajectories is zero.
C1_Conservation ==
    \A x \in transactions :
        Row(flows, x.source).amount + Sum(trajectory_amount, SplitsOf(x)) = 0

\* C8: no stored transaction refers to a placeholder account, as its source,
\* or as the target, entry point or exit point of a trajectory.
C8_NoPlaceholder ==
    \A x \in transactions :
        \A a \in AccountsOf(x) : ~ Row(accounts, a).placeholder

Rejected == last.op = "Transaction.save" /\ last.err # NoError

\* C9: when a transaction is rejected, neither its source cash flow nor any
\* of its trajectories remains stored.
C9_FailureIsNoOp ==
    Rejected =>
        /\ arg.source \notin FlowIds
        /\ arg.split_set \cap TrajectoryIds = {}

-----------------------------------------------------------------------------
(* Ledger entries: SpecLedger, and SpecLedgerConc for concurrent writers   *)

\* Account.ledger_entries (a set: the order of the rows is not read here)
ledger_entries(account) == {e \in entries : e.account = account}

\* LedgerEntry.next_entry_id_for_ledger: max() of an empty list raises
\* ValueError, and the maximum is taken over entry.id, the primary key
next_entry_id_for_ledger(account) ==
    LET existing_entries == ledger_entries(account)
    IN  IF existing_entries = {} THEN Raise(ValueError)
        ELSE Ok(Max({entry.id : entry \in existing_entries}) + 1)

\* the row LedgerEntry.save stores for an instance without primary key
new_entry(account, transaction, entry_id) ==
    [id |-> NextId(entries), account |-> account, transaction |-> transaction,
     entry_id |-> entry_id, amount |-> 1]

\* LedgerEntry.save of an instance of the ledger of account. With pk = None
\* the entry is new and takes the next entry_id; with the pk of a stored row
\* the row is saved again as it is; with a pk no row has, the row is inserted
\* under that key and entry_id keeps its default, None.
ledger_entry_save(account, transaction, pk) ==
    IF pk = None
    THEN LET n == next_entry_id_for_ledger(account)
         IN  IF n.err # NoError THEN [err |-> n.err, tbl |-> entries, val |-> None]
             ELSE [err |-> NoError, val |-> n.val,
                   tbl |-> entries \cup {new_entry(account, transaction, n.val)}]
    ELSE IF \E e \in entries : e.id = pk
    THEN [err |-> NoError, tbl |-> entries, val |-> Row(entries, pk).entry_id]
    ELSE [err |-> NoError, val |-> None,
          tbl |-> entries \cup
                  {[new_entry(account, transaction, None) EXCEPT !.id = pk]}]

LedgerEntrySave(account, transaction, pk) ==
    /\ LET r == ledger_entry_save(account, transaction, pk)
       IN  /\ \A e \in r.tbl : e.id <= MaxKey
           /\ entries' = r.tbl
           /\ last' = Did("LedgerEntry.save", r.err, r.val)
    /\ arg' = [account |-> account, pk |-> pk]
    /\ UNCHANGED <<treeVars, moneyVars, writers,
                   invoiceVars, subjectiveVars>>

\* the accounts whose ledgers the model writes to: /w and /c of system 1
LedgerAccounts == {3, 8}

\* the store of SpecMoney after one transaction from /w to /c was saved
LedgerFlows ==
    {[id |-> 1, account |-> 3, amount |-> 1],
     [id |-> 2, account |-> 8, amount |-> 1]}

LedgerTrajectories ==
    {[id |-> 1, entry_point |-> None, exit_point |-> None, target |-> 2]}

LedgerTransactions == {[id |-> 1, issuer |-> 1, source |-> 1, split_set |-> {1}]}

\* no ledger entry was saved yet
NoEntry == [account |-> None, pk |-> None]

InitLedger ==
    /\ subjects = {1, 2}
    /\ systems = MoneySystems
    /\ accounts = MoneyAccounts
    /\ flows = LedgerFlows
    /\ trajectories = LedgerTrajectories
    /\ transactions = LedgerTransactions
    /\ entries = {}
    /\ writers = NoWriters
    /\ invoices = {}
    /\ hooks = <<>>
    /\ subjective_models = {}
    /\ marked = {}
    /\ receivers = 0
    /\ instances = {}
    /\ subject_instance = {}
    /\ arg = NoEntry
    /\ last = Nothing

NextLedger ==
    \E a \in LedgerAccounts, x \in {t.id : t \in transactions},
       pk \in 0..MaxKey : LedgerEntrySave(a, x, pk)

SpecLedger == InitLedger /\ [][NextLedger]_vars

\* the entry_ids the ledger of an account holds
EntryIds(account) == {e.entry_id : e \in ledger_entries(account)} \ {None}

\* one more than the greatest entry_id of the ledger, 1 for a ledger without
NextEntryId(account) ==
    IF EntryIds(account) = {} THEN 1 ELSE Max(EntryIds(account)) + 1

\* C6: a new entry of an account gets entry_id 1 when the ledger of the
\* account is empty, and otherwise one more than the greatest entry_id of
\* that ledger.
C6_LedgerNumbering ==
    [][\A a \in LedgerAccounts :
           (last'.op = "LedgerEntry.save" /\ arg' = [account |-> a, pk |-> None])
           => \E e \in entries' \ entries :
                  e.account = a /\ e.entry_id = NextEntryId(a)]_vars

Idle == [pc |-> "idle", account |-> None, transaction |-> None, next_id |-> None]

\* LedgerEntry.save, first half: a writer evaluates next_entry_id_for_ledger
WriterRead(w, account, transaction) ==
    /\ writers[w].pc = "idle"
    /\ LET n == next_entry_id_for_ledger(account)
       IN  /\ writers' =
                  IF n.err # NoError THEN writers
                  ELSE [writers EXCEPT ![w] =
                           [pc |-> "insert", account |-> account,
                            transaction |-> transaction, next_id |-> n.val]]
           /\ last' = Did("LedgerEntry.next_entry_id_for_ledger", n.err, n.val)
    /\ UNCHANGED <<treeVars, moneyVars, entries, arg,
                   invoiceVars, subjectiveVars>>

\* LedgerEntry.save, second half: the writer inserts its row
WriterInsert(w) ==
    /\ writers[w].pc = "insert"
    /\ NextId(entries) <= MaxKey
    /\ entries' = entries \cup {new_entry(writers[w].account,
                                          writers[w].transaction,
                                          writers[w].next_id)}
    /\ writers' = [writers EXCEPT ![w] = Idle]
    /\ last' = Did("LedgerEntry.save", NoError, writers[w].next_id)
    /\ UNCHANGED <<treeVars, moneyVars, arg,
                   invoiceVars, subjectiveVars>>

InitLedgerConc ==
    /\ subjects = {1, 2}
    /\ systems = MoneySystems
    /\ accounts = MoneyAccounts
    /\ flows = LedgerFlows
    /\ trajectories = LedgerTrajectories
    /\ transactions = LedgerTransactions
    /\ entries = {}
    /\ writers = [w \in 1..MaxWriters |-> Idle]
    /\ invoices = {}
    /\ hooks = <<>>
    /\ subjective_models = {}
    /\ marked = {}
    /\ receivers = 0
    /\ instances = {}
    /\ subject_instance = {}
    /\ arg = NoEntry
    /\ last = Nothing

NextLedgerConc ==
    \/ \E a \in LedgerAccounts, x \in {t.id : t \in transactions},
          pk \in 1..MaxKey : LedgerEntrySave(a, x, pk)
    \/ \E w \in 1..MaxWriters, a \in LedgerAccounts,
          x \in {t.id : t \in transactions} : WriterRead(w, a, x)
    \/ \E w \in 1..MaxWriters : WriterInsert(w)

SpecLedgerConc == InitLedgerConc /\ [][NextLedgerConc]_vars

\* C7: no two ledger entries of one account have the same entry_id, however
\* the writers interleave.
C7_NoDuplicateEntryId ==
    \A e1 \in entries, e2 \in entries :
        (e1.id # e2.id /\ e1.account = e2.account /\ e1.entry_id # None)
        => e1.entry_id # e2.entry_id

-----------------------------------------------------------------------------
(* The accounting system of a subject, set up and deleted: SpecInit         *)

\* Subject.init_accounting_system: [err, val, systems, accounts], val the new
\* system. It fails when the subject owns a system, and otherwise stores the
\* system with its root, /incomes and /expenses in one unit of work.
init_accounting_system(subj) ==
    IF \E s \in systems : s.owner = subj
    THEN [err |-> InvalidAccountingOperation, val |-> None,
          systems |-> systems, accounts |-> accounts]
    ELSE [err |-> NoError, val |-> NextId(systems),
          systems |-> systems \cup {[id |-> NextId(systems), owner |-> subj]},
          accounts |-> accounts \cup initial_accounts(NextId(systems))]

\* subject.init_accounting_system(), called and its outcome kept
InitAccountingSystemCall(subj) ==
    /\ LET r == init_accounting_system(subj)
       IN  /\ \A t \in r.systems : t.id <= MaxKey
           /\ \A a \in r.accounts : a.id <= MaxAccountKey
           /\ systems' = r.systems
           /\ accounts' = r.accounts
           /\ last' = Did("Subject.init_accounting_system", r.err, r.val)
    /\ arg' = subj
    /\ UNCHANGED <<subjects, moneyVars, entries, writers,
                   invoiceVars, subjectiveVars>>

\* Subject.delete(): the foreign keys to Subject cascade (AccountSystem.owner,
\* Transaction.issuer, Invoice.issuer, Invoice.recipient), and from the
\* deleted systems on as in delete_systems
delete_subject(subj) ==
    LET d == delete_systems({s.id : s \in {t \in systems : t.owner = subj}})
        goneX == {x.id : x \in {y \in d.transactions : y.issuer = subj}}
    IN  [d EXCEPT !.transactions = {x \in d.transactions : x.id \notin goneX},
                  !.entries = {e \in d.entries : e.transaction \notin goneX}]

SubjectDelete(subj) ==
    /\ LET d == delete_subject(subj)
       IN  /\ systems' = d.systems
           /\ accounts' = d.accounts
           /\ flows' = d.flows
           /\ trajectories' = d.trajectories
           /\ transactions' = d.transactions
           /\ entries' = d.entries
           /\ last' = Did("Subject.delete", NoError,
                          Cardinality(accounts) - Cardinality(d.accounts))
    /\ subjects' = subjects \ {subj}
    /\ invoices' = {i \in invoices : i.issuer # subj /\ i.recipient # subj}
    /\ arg' = subj
    /\ UNCHANGED <<writers, hooks, subjectiveVars>>

InitInit ==
    /\ subjects = {}
    /\ systems = {}
    /\ accounts = {}
    /\ flows = {}
    /\ trajectories = {}
    /\ transactions = {}
    /\ entries = {}
    /\ writers = NoWriters
    /\ invoices = {}
    /\ hooks = <<>>
    /\ subjective_models = {}
    /\ marked = {}
    /\ receivers = 0
    /\ instances = {}
    /\ subject_instance = {}
    /\ arg = None
    /\ last = Nothing

NextInit ==
    \/ Cardinality(subjects) < MaxInitSubjects /\ SubjectCreate
    \/ \E subj \in subjects : SubjectDelete(subj)
    \/ \E subj \in subjects : InitAccountingSystemCall(subj)
    \/ \E subj \in subjects : AccountSystemCreate(subj)
    \/ \E s \in SystemIds : AccountSystemDelete(s)

SpecInit == InitInit /\ [][NextInit]_vars

InitCalled == last.op = "Subject.init_accounting_system"

\* C11: no subject owns more than one accounting system, and a call of
\* init_accounting_system on a subject that owns a system fails with
\* InvalidAccountingOperation and changes neither the systems nor the accounts.
C11_IdempotentInit ==
    /\ [](\A subj \in subjects :
              Cardinality({s \in systems : s.owner = subj}) <= 1)
    /\ [][(InitCalled' /\ \E s \in systems : s.owner = arg')
          => /\ last'.err = InvalidAccountingOperation
             /\ systems' = systems
             /\ accounts' = accounts]_vars

\* a second init_accounting_system was refused: the subject has its three accounts
C11_Witness ==
    /\ InitCalled
    /\ last.err = InvalidAccountingOperation
    /\ \E s \in systems : s.owner = arg /\ Cardinality(system_accounts(s.id)) = 3

InitDone == InitCalled /\ last.err = NoError

incomes == <<"i", "n", "c", "o", "m", "e", "s">>
expenses == <<"e", "x", "p", "e", "n", "s", "e", "s">>

C13_InitPlaceholders ==
    InitDone =>
        \A a \in system_accounts(last.res) :
            /\ a.name = <<>> => (a.kind = ROOT /\ a.placeholder)
            /\ a.name = incomes => (a.kind = INCOME /\ ~ a.placeholder)
            /\ a.name = expenses => (a.kind = EXPENSE /\ ~ a.placeholder)

\* C15: no accounting system is owned by a deleted subject, and no account
\* belongs to a deleted system.
C15_SubjectDeleteCascades ==
    /\ \A s \in systems : s.owner \in subjects
    /\ \A a \in accounts : a.system \in SystemIds

\* a subject was deleted with the accounts of its system, another system stays
C15_Witness ==
    /\ last.op = "Subject.delete"
    /\ last.res >= 3
    /\ arg \notin subjects
    /\ accounts # {}

-----------------------------------------------------------------------------
(* Subjective models and their subjects: SpecSubjective                    *)

\* the models of the tests that economic_subject decorates
Models == {"Person", "GAS"}

\* the Subject rows that point to an instance
subjects_of(i) ==
    {r \in subject_instance : r.content_type = i.model /\ r.object_id = i.pk}

\* SubjectDescriptor.__get__: Subject.objects.get(content_type, object_id)
subject_get(i) ==
    IF subjects_of(i) = {} THEN Raise(DoesNotExist)
    ELSE IF Cardinality(subjects_of(i)) > 1 THEN Raise(MultipleObjectsReturned)
    ELSE Ok((CHOOSE r \in subjects_of(i) : TRUE).subject)

\* economic_subject(cls): a model of the registry is skipped; a model that
\* has the subject attribute is refused; otherwise the descriptor is set and
\* one more pair of receivers is connected. The registry is left as it is.
EconomicSubject(m) ==
    /\ IF m \in subjective_models
       THEN /\ UNCHANGED <<marked, receivers>>
            /\ last' = Did("economic_subject", NoError, None)
       ELSE IF m \in marked
       THEN /\ UNCHANGED <<marked, receivers>>
            /\ last' = Did("economic_subject", SubjectiveAPIError, None)
       ELSE /\ marked' = marked \cup {m}
            /\ receivers' = receivers + 1
            /\ last' = Did("economic_subject", NoError, None)
    /\ arg' = m
    /\ UNCHANGED <<treeVars, moneyVars, entries, writers, invoiceVars,
                   subjective_models, instances, subject_instance>>

\* the receivers are functions local to economic_subject and the signals
\* hold them by weak reference: they are gone once they are collected
ReceiversCollected ==
    /\ receivers > 0
    /\ receivers' = 0
    /\ last' = Did("collected", NoError, None)
    /\ UNCHANGED <<treeVars, moneyVars, entries, writers, arg, invoiceVars,
                   subjective_models, marked, instances, subject_instance>>

\* the Subject rows the receivers subjectify store for the new instance i:
\* one for each connected receiver, when the model is in the registry
subjectify(i) ==
    LET k == IF i.model \in subjective_models THEN receivers ELSE 0
        n == IF subjects = {} THEN 0 ELSE Max(subjects)
    IN  {[subject |-> n + j, content_type |-> i.model, object_id |-> i.pk] :
             j \in 1..k}

\* m.objects.create(...): the instance is stored and post_save is sent
ModelCreate(m) ==
    /\ Cardinality(instances) < MaxInstances
    /\ LET i == [model |-> m,
                 pk |-> NextId({[id |-> j.pk] : j \in {k \in instances : k.model = m}})]
       IN  /\ i.pk <= MaxKey
           /\ \A r \in subjectify(i) : r.subject <= MaxKey
           /\ instances' = instances \cup {i}
           /\ subject_instance' = subject_instance \cup subjectify(i)
           /\ subjects' = subjects \cup {r.subject : r \in subjectify(i)}
           /\ arg' = i
    /\ last' = Did("Model.objects.create", NoError, None)
    /\ UNCHANGED <<systems, accounts, moneyVars, entries, writers, invoiceVars,
                   subjective_models, marked, receivers>>

\* instance.delete(): the row is deleted and post_delete is sent; each
\* receiver cleanup_stale_subjects deletes instance.subject when the model is
\* in the registry, and the first that finds no single subject raises
ModelDelete(i) ==
    /\ instances' = instances \ {i}
    /\ arg' = i
    /\ IF i.model \notin subjective_models \/ receivers = 0
       THEN /\ UNCHANGED <<treeVars, moneyVars, entries, invoices,
                           subject_instance>>
            /\ last' = Did("Model.delete", NoError, None)
       ELSE IF subject_get(i).err # NoError
       THEN /\ UNCHANGED <<treeVars, moneyVars, entries, invoices,
                           subject_instance>>
            /\ last' = Did("Model.delete", subject_get(i).err, None)
       ELSE LET subj == subject_get(i).val
                d == delete_subject(subj)
            IN  /\ subjects' = subjects \ {subj}
                /\ subject_instance' = subject_instance \ subjects_of(i)
                /\ systems' = d.systems
                /\ accounts' = d.accounts
                /\ flows' = d.flows
                /\ trajectories' = d.trajectories
                /\ transactions' = d.transactions
                /\ entries' = d.entries
                /\ invoices' =
                       {v \in invoices : v.issuer # subj /\ v.recipient # subj}
                /\ last' = Did("Model.delete",
                               IF receivers > 1 THEN DoesNotExist ELSE NoError,
                               None)
    /\ UNCHANGED <<writers, hooks, subjective_models, marked, receivers>>

InitSubjective ==
    /\ subjects = {}
    /\ systems = {}
    /\ accounts = {}
    /\ flows = {}
    /\ trajectories = {}
    /\ transactions = {}
    /\ entries = {}
    /\ writers = NoWriters
    /\ invoices = {}
    /\ hooks = <<>>
    /\ subjective_models = {}
    /\ marked = {}
    /\ receivers = 0
    /\ instances = {}
    /\ subject_instance = {}
    /\ arg = None
    /\ last = Nothing

NextSubjective ==
    \/ \E m \in Models : EconomicSubject(m)
    \/ ReceiversCollected
    \/ \E m \in marked : ModelCreate(m)
    \/ \E i \in instances : ModelDelete(i)

SpecSubjective == InitSubjective /\ [][NextSubjective]_vars

\* C14: every stored instance of a model marked as an economic subject has
\* exactly one Subject with its content type and object id, and the Subjects
\* of the marked models all point to stored instances.
C14_SubjectLifecycle ==
    /\ \A i \in instances :
           i.model \in marked => Cardinality(subjects_of(i)) = 1
    /\ \A r \in subject_instance :
           r.content_type \in marked
           => [model |-> r.content_type, pk |-> r.object_id] \in instances

-----------------------------------------------------------------------------
(* Invoices and the accounting proxy: SpecInvoice                          *)

\* Invoice.ISSUED .. Invoice.PAYMENT_CONFIRMED
ISSUED == 0
OVERDUE == 1
PAYED == 2
PAYMENT_CONFIRMED == 3

\* AccountingProxy.make_transactions_for_invoice_payment: the hook does
\* nothing of its own; hooks keeps that it was called, and how
make_transactions_for_invoice_payment(invoice, is_being_payed) ==
    Append(hooks, [invoice |-> invoice, is_being_payed |-> is_being_payed])

\* the check of the recipient forgotten: whoever calls pays
pay_invoice_unchecked(subj, invoice) ==
    IF accounting_system(subj).err # NoError
    THEN [err |-> accounting_system(subj).err, invoices |-> invoices, hooks |-> hooks]
    ELSE IF \E v \in invoices : v.id = invoice
    THEN [err |-> NoError,
          hooks |-> make_transactions_for_invoice_payment(invoice, TRUE),
          invoices |-> {IF v.id = invoice THEN [v EXCEPT !.is_payed = TRUE] ELSE v :
                            v \in invoices}]
    ELSE [err |-> ValueError, invoices |-> invoices, hooks |-> hooks]

\* AccountingProxy(subj).pay_invoice(invoice): the proxy is built first
\* (AccountingProxy.__init__ reads subj.accounting_system); invoice is the
\* key of an Invoice instance, or None for an object that is no Invoice
pay_invoice(subj, invoice) ==
    IF accounting_system(subj).err # NoError
    THEN [err |-> accounting_system(subj).err, invoices |-> invoices, hooks |-> hooks]
    ELSE IF \E v \in invoices : v.id = invoice /\ v.recipient = subj
    THEN [err |-> NoError,
          hooks |-> make_transactions_for_invoice_payment(invoice, TRUE),
          invoices |-> {IF v.id = invoice THEN [v EXCEPT !.is_payed = TRUE] ELSE v :
                            v \in invoices}]
    ELSE [err |-> ValueError, invoices |-> invoices, hooks |-> hooks]

\* AccountingProxy(subj).set_invoice_payed(invoice)
set_invoice_payed(subj, invoice) ==
    IF accounting_system(subj).err # NoError
    THEN [err |-> accounting_system(subj).err, invoices |-> invoices, hooks |-> hooks]
    ELSE IF \E v \in invoices : v.id = invoice /\ v.issuer = subj
    THEN [err |-> NoError,
          hooks |-> make_transactions_for_invoice_payment(invoice, FALSE),
          invoices |-> {IF v.id = invoice THEN [v EXCEPT !.is_payed = TRUE] ELSE v :
                            v \in invoices}]
    ELSE [err |-> ValueError, invoices |-> invoices, hooks |-> hooks]

\* Invoice(issuer=..., recipient=..., status=Invoice.ISSUED, ...), saved
InvoiceCreate(issuer, recipient) ==
    /\ Cardinality(invoices) < MaxInvoices
    /\ invoices' = invoices \cup
           {[id |-> NextId(invoices), issuer |-> issuer, recipient |-> recipient,
             status |-> ISSUED, is_payed |-> FALSE]}
    /\ last' = Did("Invoice.objects.create", NoError, NextId(invoices))
    /\ arg' = [subject |-> issuer, invoice |-> NextId(invoices)]
    /\ UNCHANGED <<treeVars, moneyVars, entries, writers, hooks, subjectiveVars>>

PayInvoice(subj, invoice) ==
    /\ LET r == pay_invoice(subj, invoice)
       IN  /\ Len(r.hooks) <= MaxHooks
           /\ invoices' = r.invoices
           /\ hooks' = r.hooks
           /\ last' = Did("AccountingProxy.pay_invoice", r.err, None)
    /\ arg' = [subject |-> subj, invoice |-> invoice]
    /\ UNCHANGED <<treeVars, moneyVars, entries, writers, subjectiveVars>>

SetInvoicePayed(subj, invoice) ==
    /\ LET r == set_invoice_payed(subj, invoice)
       IN  /\ Len(r.hooks) <= MaxHooks
           /\ invoices' = r.invoices
           /\ hooks' = r.hooks
           /\ last' = Did("AccountingProxy.set_invoice_payed", r.err, None)
    /\ arg' = [subject |-> subj, invoice |-> invoice]
    /\ UNCHANGED <<treeVars, moneyVars, entries, writers, subjectiveVars>>

\* three subjects, two of them with an accounting system
InitInvoice ==
    /\ subjects = {1, 2, 3}
    /\ systems = BareSystems({1, 2})
    /\ accounts = BareRoots({1, 2})
    /\ flows = {}
    /\ trajectories = {}
    /\ transactions = {}
    /\ entries = {}
    /\ writers = NoWriters
    /\ invoices = {}
    /\ hooks = <<>>
    /\ subjective_models = {}
    /\ marked = {}
    /\ receivers = 0
    /\ instances = {}
    /\ subject_instance = {}
    /\ arg = [subject |-> None, invoice |-> None]
    /\ last = Nothing

\* who issues an invoice to whom: to another subject, to itself, to a
\* subject without accounting system, and from such a subject
InvoiceParties == {<<1, 2>>, <<2, 2>>, <<1, 3>>, <<3, 1>>}

NextInvoice ==
    \/ \E p \in InvoiceParties : InvoiceCreate(p[1], p[2])
    \/ \E subj \in subjects, v \in {w.id : w \in invoices} \cup {None} :
           PayInvoice(subj, v)
    \/ \E subj \in subjects, v \in {w.id : w \in invoices} \cup {None} :
           SetInvoicePayed(subj, v)

SpecInvoice == InitInvoice /\ [][NextInvoice]_vars

Paying == last.op = "AccountingProxy.pay_invoice"
Collecting == last.op = "AccountingProxy.set_invoice_payed"

\* C16: pay_invoice fails when the recipient of the invoice is not the subject
\* of the proxy, set_invoice_payed fails when the issuer is not; a call that
\* fails invokes no hook and leaves the invoices as they are.
C16_InvoiceParty ==
    [][/\ (Paying' /\ ~ \E v \in invoices :
                          v.id = arg'.invoice /\ v.recipient = arg'.subject)
          => last'.err # NoError
       /\ (Collecting' /\ ~ \E v \in invoices :
                              v.id = arg'.invoice /\ v.issuer = arg'.subject)
          => last'.err # NoError
       /\ ((Paying' \/ Collecting') /\ last'.err # NoError)
          => (hooks' = hooks /\ invoices' = invoices)]_vars

\* the issuer of an invoice, who has an accounting system, was refused when
\* paying it, after another payment went through
C16_Witness ==
    /\ Paying
    /\ last.err = ValueError
    /\ hooks # <<>>
    /\ \E v \in invoices :
           v.id = arg.invoice /\ v.issuer = arg.subject /\ v.recipient # arg.subject

\* the edges of the status of an invoice
StatusEdges ==
    {<<ISSUED, OVERDUE>>, <<ISSUED, PAYED>>, <<OVERDUE, PAYED>>,
     <<PAYED, PAYMENT_CONFIRMED>>}

\* C17: a successful pay_invoice or set_invoice_payed invokes the hook and
\* changes the status of the invoice, and the status of an invoice changes
\* along the edges ISSUED -> OVERDUE, ISSUED / OVERDUE -> PAYED and
\* PAYED -> PAYMENT_CONFIRMED only.
C17_InvoiceStatus ==
    [][/\ ((Paying' \/ Collecting') /\ last'.err = NoError)
          => /\ Len(hooks') = Len(hooks) + 1
             /\ hooks'[Len(hooks')].invoice = arg'.invoice
             /\ Row(invoices', arg'.invoice).status
                    # Row(invoices, arg'.invoice).status
       /\ \A v \in invoices, w \in invoices' :
              (v.id = w.id /\ v.status # w.status)
              => <<v.status, w.status>> \in StatusEdges]_vars

-----------------------------------------------------------------------------
(* Account types: SpecType                                                 *)

\* the names of the account types: the basic ones and two custom ones
TypeNames == BASE_ACCOUNT_TYPES \cup {"cash", "bank"}

BaseTypeValues == {base_type_of(n) : n \in BASE_ACCOUNT_TYPES}

\* at = AccountType.objects.create(name=name, base_type=base)
AccountTypeCreate(name, base) ==
    /\ arg' = account_type_create(name, base)
    /\ last' = Did("AccountType.objects.create", NoError, None)
    /\ UNCHANGED <<treeVars, moneyVars, entries, writers, invoiceVars,
                   subjectiveVars>>

\* at = AccountType.objects.get(name=at.name)
AccountTypeGet ==
    /\ arg' = account_type_reload(arg)
    /\ last' = Did("AccountType.objects.get", NoError, None)
    /\ UNCHANGED <<treeVars, moneyVars, entries, writers, invoiceVars,
                   subjectiveVars>>

\* at.is_stock
IsStock ==
    /\ last' = Did("AccountType.is_stock", NoError, is_stock(arg))
    /\ UNCHANGED <<treeVars, moneyVars, entries, writers, arg, invoiceVars,
                   subjectiveVars>>

\* at.is_flux
IsFlux ==
    /\ last' = Did("AccountType.is_flux", NoError, is_flux(arg))
    /\ UNCHANGED <<treeVars, moneyVars, entries, writers, arg, invoiceVars,
                   subjectiveVars>>

InitType ==
    /\ subjects = {}
    /\ systems = {}
    /\ accounts = {}
    /\ flows = {}
    /\ trajectories = {}
    /\ transactions = {}
    /\ entries = {}
    /\ writers = NoWriters
    /\ invoices = {}
    /\ hooks = <<>>
    /\ subjective_models = {}
    /\ marked = {}
    /\ receivers = 0
    /\ instances = {}
    /\ subject_instance = {}
    /\ arg \in {account_type_create(n, b) : n \in TypeNames, b \in BaseTypeValues}
    /\ last = Nothing

NextType ==
    \/ \E n \in TypeNames, b \in BaseTypeValues : AccountTypeCreate(n, b)
    \/ AccountTypeGet
    \/ IsStock
    \/ IsFlux

SpecType == InitType /\ [][NextType]_vars

\* the base type an AccountType instance was given
BaseOf(at) == at.base_type.value

\* C18: for an account type, created or read back from the store, is_stock
\* holds exactly when its base type is ASSET or LIABILITY, and is_flux
\* exactly when it is INCOME or EXPENSE (so ROOT is neither, and no type is
\* both).
C18_StockAndFlux ==
    /\ last.op = "AccountType.is_stock" =>
           last.res = (BaseOf(arg) \in {base_type_of(ASSET), base_type_of(LIABILITY)})
    /\ last.op = "AccountType.is_flux" =>
           last.res = (BaseOf(arg) \in {base_type_of(INCOME), base_type_of(EXPENSE)})
    /\ ~ (is_stock(arg) /\ is_flux(arg))

-----------------------------------------------------------------------------
(* Balances: SpecBalance                                                   *)

\* the attributes of an Account instance: its fields, the reverse accessors
\* that the related_name of a foreign key to Account declares, and its
\* properties
AccountAttributes ==
    {"id", "system", "parent", "name", "kind", "placeholder",
     "account_set", "flow_set", "entry_set",
     "base_type", "is_stock", "is_flux", "owner", "balance", "path",
     "is_root", "root", "ledger_entries"}

\* reading an attribute of an Account instance
getattr_account(name) ==
    IF name \in AccountAttributes THEN NoError ELSE AttributeError

\* Account.balance: the two sets it reads are attributes no model declares
balance(account) ==
    IF getattr_account("incoming_transaction_set") # NoError
    THEN Raise(AttributeError)
    ELSE IF getattr_account("outgoing_transaction_set") # NoError
    THEN Raise(AttributeError)
    ELSE Ok(0)

\* Account.is_stock: self.kind.is_stock, kind being read from the store
account_is_stock(a) == is_stock(account_type_get(a.kind))

\* AccountSystem.total_amount
total_amount(s) ==
    LET stock == {a \in system_accounts(s) : account_is_stock(a)}
        account_balance(a) == balance(a.id).val
    IN  IF \E a \in stock : balance(a.id).err # NoError
        THEN Raise(AttributeError)
        ELSE Ok(Sum(account_balance, stock))

\* account.balance
Balance(account) ==
    /\ last' = Did("Account.balance", balance(account).err, balance(account).val)
    /\ UNCHANGED <<treeVars, moneyVars, entries, writers, arg, invoiceVars,
                   subjectiveVars>>

\* system.total_amount
TotalAmount(s) ==
    /\ last' = Did("AccountSystem.total_amount", total_amount(s).err,
                   total_amount(s).val)
    /\ UNCHANGED <<treeVars, moneyVars, entries, writers, arg, invoiceVars,
                   subjectiveVars>>

\* the accounts the cash flows are on: /w and /c of system 1, /w of system 2;
\* a positive amount flows out of its account, a negative one into it
BalanceAccounts == {3, 7, 8}
BalanceAmounts == {-1, 1}

NoTransaction == [id |-> None, issuer |-> None, source |-> None, split_set |-> {}]

InitBalance ==
    /\ subjects = {1, 2}
    /\ systems = MoneySystems
    /\ accounts = MoneyAccounts
    /\ flows = {}
    /\ trajectories = {}
    /\ transactions = {}
    /\ entries = {}
    /\ writers = NoWriters
    /\ invoices = {}
    /\ hooks = <<>>
    /\ subjective_models = {}
    /\ marked = {}
    /\ receivers = 0
    /\ instances = {}
    /\ subject_instance = {}
    /\ arg = NoTransaction
    /\ last = Nothing

NextBalance ==
    \/ \E a \in BalanceAccounts, m \in BalanceAmounts : CashFlowSave(a, m)
    \/ \E en \in {None, 6}, ex \in {None, 5}, f \in FlowIds :
           TrajectorySave(en, ex, f)
    \/ \E f \in FlowIds, t \in TrajectoryIds : TransactionSave(1, f, {t}, <<"d">>)
    \/ \E a \in BalanceAccounts : Balance(a)
    \/ \E s \in SystemIds : TotalAmount(s)

SpecBalance == InitBalance /\ [][NextBalance]_vars

\* the kind of the account is ASSET or LIABILITY
StockAccount(a) == Row(accounts, a).kind \in {ASSET, LIABILITY}

\* this step stores a simple transaction of amount x from s to t
SimpleTransactionStored(s, t, x) ==
    \E tx \in transactions' \ transactions :
        \E f \in flows', g \in flows', tr \in trajectories' :
            /\ tx.source = f.id /\ f.account = s /\ f.amount = x
            /\ tx.split_set = {tr.id}
            /\ tr.entry_point = None /\ tr.exit_point = None
            /\ tr.target = g.id /\ g.account = t /\ g.amount = - x

\* C19: a simple transaction of amount x from the stock account s to the
\* stock account t of the same system lowers the balance of s by x, raises
\* the balance of t by x, leaves every other balance as it was, and creates
\* exactly two ledger entries, one on s and one on t.
C19_SimpleTransaction ==
    [][\A s \in BalanceAccounts, t \in BalanceAccounts :
           (/\ s # t
            /\ SimpleTransactionStored(s, t, 1)
            /\ StockAccount(s) /\ StockAccount(t)
            /\ Row(accounts, s).system = Row(accounts, t).system)
           => /\ balance(s)' = Ok(balance(s).val - 1)
              /\ balance(t)' = Ok(balance(t).val + 1)
              /\ \A o \in {a.id : a \in MoneyAccounts} \ {s, t} :
                     balance(o)' = balance(o)
              /\ Cardinality(entries' \ entries) = 2
              /\ \E e \in entries' \ entries : e.account = s
              /\ \E e \in entries' \ entries : e.account = t]_vars

\* a transaction one of whose trajectories leaves the system of its source
NonInternal(tx) == \E t \in SplitsOf(tx) : ~ trajectory_is_internal(t)

\* the cash flows of a transaction: its source and the targets of its splits
FlowsOf(tx) ==
    {f \in flows : f.id = tx.source \/ \E t \in SplitsOf(tx) : t.target = f.id}

\* what a flow adds to the stock of its account: an incoming flow is negative
Inflow(f) == - f.amount

\* the algebraic sum of the flows that the non-internal transactions have on
\* the accounts of a system (a flow counts once for each such transaction)
ExternalFlows(s) ==
    LET of_system(tx) == {f \in FlowsOf(tx) : Row(accounts, f.account).system = s}
        inflow(tx) == Sum(Inflow, of_system(tx))
    IN  Sum(inflow, {tx \in transactions : NonInternal(tx)})

\* C20: the total amount of every accounting system is the algebraic sum of
\* the flows of the non-internal transactions stored against it (so that an
\* internal transaction leaves it as it was).
C20_BalanceConsistency ==
    \A s \in SystemIds : total_amount(s) = Ok(ExternalFlows(s))

-----------------------------------------------------------------------------
(* The root of an accounting system: SpecRoot                              *)

\* system.root
RootLookup(s) ==
    /\ arg' = s
    /\ last' = Did("AccountSystem.root", system_root(s).err, system_root(s).val)
    /\ UNCHANGED <<treeVars, moneyVars, entries, writers, invoiceVars,
                   subjectiveVars>>

\* two accounting systems, the first with its root account and the second,
\* as AccountSystem.objects.create leaves it, without
InitRoot ==
    /\ subjects = {1, 2}
    /\ systems = BareSystems({1, 2})
    /\ accounts = BareRoots({1})
    /\ flows = {}
    /\ trajectories = {}
    /\ transactions = {}
    /\ entries = {}
    /\ writers = NoWriters
    /\ invoices = {}
    /\ hooks = <<>>
    /\ subjective_models = {}
    /\ marked = {}
    /\ receivers = 0
    /\ instances = {}
    /\ subject_instance = {}
    /\ arg = None
    /\ last = Nothing

NextRoot ==
    \/ \E s \in SystemIds : RootLookup(s)
    \/ \E s \in SystemIds : AddRootAccount(s)
    \/ \E s \in SystemIds, p \in AccountIds \cup {None}, n \in Names :
           AccountSave(s, p, n)

SpecRoot == InitRoot /\ [][NextRoot]_vars

\* this step is a lookup of the root of system s
LooksUpRoot(s) ==
    /\ last'.op = "AccountSystem.root"
    /\ arg' = s
    /\ accounts' = accounts
    /\ <<arg, last>>' # <<arg, last>>

\* C21: the lookup of the root of a system returns the root account when the
\* system has exactly one account without parent, and fails with
\* MalformedAccountTree when it has none and when it has more than one.
C21_RootLookup ==
    [][\A s \in SystemIds :
           LooksUpRoot(s) =>
               IF Cardinality(Roots(s)) = 1
               THEN last'.err = NoError /\ last'.res \in {a.id : a \in Roots(s)}
               ELSE last'.err = MalformedAccountTree]_vars

-----------------------------------------------------------------------------
(* Adding accounts to a tree: SpecAddChild                                 *)

\* the names given to the accounts added: one name, and the blank name
ChildNames == {<<"a">>, <<>>}

\* the instances handed to add_child: the stored accounts, and new ones of
\* either system
ChildInstances ==
    accounts \cup {NewAccount(s, n, ASSET, FALSE) : s \in SystemIds, n \in ChildNames}

\* the type and the placeholder flag asked of add_account
KindsAndFlags == {<<ASSET, FALSE>>, <<EXPENSE, TRUE>>}

\* parent.add_child(account); arg keeps the parent and the instance passed
AddChildCall(p, acc) ==
    /\ LET r == add_child(p, acc)
       IN  /\ Cardinality(r.tbl) <= MaxTreeAccounts
           /\ accounts' = r.tbl
           /\ last' = Did("Account.add_child", r.err, None)
    /\ arg' = [parent |-> p, account |-> acc]
    /\ UNCHANGED <<subjects, systems, moneyVars, entries, writers, invoiceVars,
                   subjectiveVars>>

\* system.add_account(parent_path, name, kind, is_placeholder); arg keeps the
\* parent the path leads to and the account asked for
AddAccountCall(s, parent_path, name, kind, placeholder) ==
    /\ LET r == add_account(s, parent_path, name, kind, placeholder)
       IN  /\ Cardinality(r.tbl) <= MaxTreeAccounts
           /\ accounts' = r.tbl
           /\ last' = Did("AccountSystem.add_account", r.err, None)
    /\ arg' = [parent |-> getitem(s, parent_path).val,
               account |-> NewAccount(s, name, kind, placeholder)]
    /\ UNCHANGED <<subjects, systems, moneyVars, entries, writers, invoiceVars,
                   subjectiveVars>>

NoCall == [parent |-> None, account |-> NewAccount(None, <<>>, ROOT, FALSE)]

\* two accounting systems, the first with its root account
InitAddChild ==
    /\ subjects = {1, 2}
    /\ systems = BareSystems({1, 2})
    /\ accounts = BareRoots({1})
    /\ flows = {}
    /\ trajectories = {}
    /\ transactions = {}
    /\ entries = {}
    /\ writers = NoWriters
    /\ invoices = {}
    /\ hooks = <<>>
    /\ subjective_models = {}
    /\ marked = {}
    /\ receivers = 0
    /\ instances = {}
    /\ subject_instance = {}
    /\ arg = NoCall
    /\ last = Nothing

NextAddChild ==
    \/ \E p \in AccountIds, acc \in ChildInstances : AddChildCall(p, acc)
    \/ \E p \in TreePaths, kf \in KindsAndFlags :
           AddAccountCall(1, p, <<"a">>, kf[1], kf[2])

SpecAddChild == InitAddChild /\ [][NextAddChild]_vars

AddingChild == last'.op = "Account.add_child"
AddingAccount == last'.op = "AccountSystem.add_account" /\ arg'.parent # None

\* the parent of the call has a child with the name of the account
NameTaken ==
    \E c \in accounts : c.parent = arg'.parent /\ c.name = arg'.account.name

\* the account stored as a child of the parent of the call, and nothing else:
\* a new row for an instance without key, its own row for a stored one
ChildStored ==
    IF arg'.account.id = None
    THEN \E n \in accounts' \ accounts :
             /\ accounts' = accounts \cup {n}
             /\ [n EXCEPT !.id = None] = [arg'.account EXCEPT !.parent = arg'.parent]
    ELSE accounts' = {a \in accounts : a.id # arg'.account.id}
                     \cup {[arg'.account EXCEPT !.parent = arg'.parent]}

\* exactly one new account, a child of the parent of the call with the name,
\* type and placeholder flag of the account
OneNewChild ==
    \E n \in accounts' \ accounts :
        /\ accounts' = accounts \cup {n}
        /\ n.parent = arg'.parent /\ n.name = arg'.account.name
        /\ n.kind = arg'.account.kind
        /\ n.placeholder = arg'.account.placeholder

\* the account has a name, and its system is the system of the parent
ValidChild ==
    /\ arg'.account.name # <<>>
    /\ arg'.account.system = Row(accounts, arg'.parent).system

-----------------------------------------------------------------------------
(* Ledger entries saved, saved again and deleted: SpecLedgerLog            *)

\* arg, here, keeps the call and the log of the entry_ids handed out so far:
\* one record for each new entry, numbered in the order of their creation
NoLog == [account |-> None, pk |-> None, assigned |-> {}]

\* LedgerEntry(account=..., transaction=..., pk=pk).save()
LedgerEntrySaveLogged(account, transaction, pk) ==
    /\ LET r == ledger_entry_save(account, transaction, pk)
           log == IF pk = None /\ r.err = NoError
                  THEN {[account |-> account, entry_id |-> r.val,
                         serial |-> Cardinality(arg.assigned) + 1]}
                  ELSE {}
       IN  /\ \A e \in r.tbl : e.id <= MaxKey
           /\ Cardinality(arg.assigned \cup log) <= MaxAssigned
           /\ entries' = r.tbl
           /\ last' = Did("LedgerEntry.save", r.err, r.val)
           /\ arg' = [account |-> account, pk |-> pk,
                      assigned |-> arg.assigned \cup log]
    /\ UNCHANGED <<treeVars, moneyVars, writers, invoiceVars, subjectiveVars>>

\* entry.delete(), of the stored entry with primary key pk
LedgerEntryDelete(pk) ==
    /\ entries' = {e \in entries : e.id # pk}
    /\ last' = Did("LedgerEntry.delete", NoError, None)
    /\ arg' = [arg EXCEPT !.account = Row(entries, pk).account, !.pk = pk]
    /\ UNCHANGED <<treeVars, moneyVars, writers, invoiceVars, subjectiveVars>>

InitLedgerLog ==
    /\ subjects = {1, 2}
    /\ systems = MoneySystems
    /\ accounts = MoneyAccounts
    /\ flows = LedgerFlows
    /\ trajectories = LedgerTrajectories
    /\ transactions = LedgerTransactions
    /\ entries = {}
    /\ writers = NoWriters
    /\ invoices = {}
    /\ hooks = <<>>
    /\ subjective_models = {}
    /\ marked = {}
    /\ receivers = 0
    /\ instances = {}
    /\ subject_instance = {}
    /\ arg = NoLog
    /\ last = Nothing

NextLedgerLog ==
    \/ \E a \in LedgerAccounts, x \in {t.id : t \in transactions},
          pk \in 0..MaxKey : LedgerEntrySaveLogged(a, x, pk)
    \/ \E pk \in {e.id : e \in entries} : LedgerEntryDelete(pk)

SpecLedgerLog == InitLedgerLog /\ [][NextLedgerLog]_vars

\* C23: an entry_id handed to an entry of an account is never handed to
\* another entry of that account, also after entries were deleted, and
\* saving a stored entry again leaves its entry_id as it is.
C23_EntryIdNeverReused ==
    /\ [](\A x \in arg.assigned, y \in arg.assigned :
              (x.account = y.account /\ x.entry_id = y.entry_id) => x = y)
    /\ [][(last'.op = "LedgerEntry.save" /\ arg'.pk \in {e.id : e \in entries})
          => entries' = entries]_vars

-----------------------------------------------------------------------------
(* The shape of the account tree, under Spec                               *)

\* following the parent links from an account leads to an account without
\* parent, in no more steps than fuel
RECURSIVE ReachesRoot(_, _)
ReachesRoot(id, fuel) ==
    LET a == Row(accounts, id)
    IN  IF is_root(a) THEN TRUE
        ELSE IF fuel = 0 THEN FALSE
        ELSE ReachesRoot(a.parent, fuel - 1)

\* C24: whatever add_child and system[path] = account calls have run, also
\* with accounts that are in the tree already, the parent links have no
\* cycle: every account reaches a root by following them.
C24_ParentTree ==
    \A a \in accounts : ReachesRoot(a.id, Cardinality(accounts))

-----------------------------------------------------------------------------
(* Accounts saved again with other field values: SpecResave                *)

\* account.system = sys; account.parent = parent; account.save(), of the
\* stored account with primary key id
AccountResave(id, sys, parent) ==
    /\ LET acc == [Row(accounts, id) EXCEPT !.system = sys, !.parent = parent]
           r == save_account(acc)
       IN  accounts' = r.tbl
    /\ UNCHANGED <<subjects, systems, moneyVars, entries, writers, arg, last,
                   invoiceVars, subjectiveVars>>

\* two accounting systems, each with its root account
InitResave ==
    /\ subjects = {1, 2}
    /\ systems = BareSystems({1, 2})
    /\ accounts = BareRoots({1, 2})
    /\ flows = {}
    /\ trajectories = {}
    /\ transactions = {}
    /\ entries = {}
    /\ writers = NoWriters
    /\ invoices = {}
    /\ hooks = <<>>
    /\ subjective_models = {}
    /\ marked = {}
    /\ receivers = 0
    /\ instances = {}
    /\ subject_instance = {}
    /\ arg = None
    /\ last = Nothing

NextResave ==
    \/ \E s \in SystemIds, p \in AccountIds, n \in Names : AccountSave(s, p, n)
    \/ \E p \in AccountIds, acc \in AccountInstances : AddChild(p, acc)
    \/ \E id \in AccountIds, s \in SystemIds, p \in AccountIds \cup {None} :
           AccountResave(id, s, p)

SpecResave == InitResave /\ [][NextResave]_vars

\* the account has no parent, or the system of its parent, in the table
InParentSystem(a, table) ==
    a.parent # None => a.system = Row(table, a.parent).system

\* C25: every account that is not a root belongs to the accounting system of
\* its parent, and no save, direct or through add_child, stores an account
\* whose system is not the system of its parent.
C25_SameSystemAsParent ==
    /\ [](\A a \in accounts : InParentSystem(a, accounts))
    /\ [][\A n \in accounts' \ accounts : InParentSystem(n, accounts')]_vars

-----------------------------------------------------------------------------
(* Concurrent callers of add_child and add_root_account: SpecTreeConc      *)

\* a caller between two calls; pc is the statement it runs next
TreeIdle == [pc |-> "idle", parent |-> None, name |-> <<>>, system |-> None]

\* the instance a caller of add_child is about to save
ChildOf(w) ==
    [NewAccount(writers[w].system, writers[w].name, ASSET, FALSE)
        EXCEPT !.parent = writers[w].parent]

\* Account.add_child, the statement self.get_child(name=account.name)
AddChildCheck(w, p, name) ==
    /\ writers[w].pc = "idle"
    /\ IF get_child(p, name).err = NoError
       THEN /\ last' = Did("Account.add_child", ValueError, w)
            /\ UNCHANGED writers
       ELSE /\ writers' = [writers EXCEPT ![w] =
                              [pc |-> "full_clean", parent |-> p, name |-> name,
                               system |-> Row(accounts, p).system]]
            /\ UNCHANGED last
    /\ UNCHANGED <<treeVars, moneyVars, entries, arg, invoiceVars, subjectiveVars>>

\* Account.save, the statement self.full_clean()
AddChildClean(w) ==
    /\ writers[w].pc = "full_clean"
    /\ LET e == full_clean_account(ChildOf(w))
       IN  IF e # NoError
           THEN /\ writers' = [writers EXCEPT ![w] = TreeIdle]
                /\ last' = Did("Account.add_child", e, w)
           ELSE /\ writers' = [writers EXCEPT ![w].pc = "insert"]
                /\ UNCHANGED last
    /\ UNCHANGED <<treeVars, moneyVars, entries, arg, invoiceVars, subjectiveVars>>

\* Account.save, the statement super(Account, self).save(): the store
\* refuses a row that breaks the unique constraint on (parent, name)
AddChildInsert(w) ==
    /\ writers[w].pc = "insert"
    /\ Cardinality(accounts) < MaxAccounts
    /\ IF unique_together_account(ChildOf(w)) # NoError
       THEN /\ last' = Did("Account.add_child", IntegrityError, w)
            /\ UNCHANGED accounts
       ELSE /\ last' = Did("Account.add_child", NoError, w)
            /\ accounts' = store_account(ChildOf(w))
    /\ writers' = [writers EXCEPT ![w] = TreeIdle]
    /\ UNCHANGED <<subjects, systems, moneyVars, entries, arg, invoiceVars,
                   subjectiveVars>>

\* AccountSystem.add_root_account, the test for a root of the system
AddRootCheck(w, s) ==
    /\ writers[w].pc = "idle"
    /\ IF add_root_account(s).err # NoError
       THEN /\ last' = Did("AccountSystem.add_root_account",
                           add_root_account(s).err, w)
            /\ UNCHANGED writers
       ELSE /\ writers' = [writers EXCEPT ![w] =
                              [TreeIdle EXCEPT !.pc = "insert_root", !.system = s]]
            /\ UNCHANGED last
    /\ UNCHANGED <<treeVars, moneyVars, entries, arg, invoiceVars, subjectiveVars>>

\* AccountSystem.add_root_account, the creation of the root account
AddRootInsert(w) ==
    /\ writers[w].pc = "insert_root"
    /\ Cardinality(accounts) < MaxAccounts
    /\ accounts' = store_account(NewAccount(writers[w].system, <<>>, ROOT, TRUE))
    /\ last' = Did("AccountSystem.add_root_account", NoError, w)
    /\ writers' = [writers EXCEPT ![w] = TreeIdle]
    /\ UNCHANGED <<subjects, systems, moneyVars, entries, arg, invoiceVars,
                   subjectiveVars>>

\* two accounting systems, the first with its root account and the second
\* without, and callers that have not called yet
InitTreeConc ==
    /\ subjects = {1, 2}
    /\ systems = BareSystems({1, 2})
    /\ accounts = BareRoots({1})
    /\ flows = {}
    /\ trajectories = {}
    /\ transactions = {}
    /\ entries = {}
    /\ writers = [w \in 1..MaxWriters |-> TreeIdle]
    /\ invoices = {}
    /\ hooks = <<>>
    /\ subjective_models = {}
    /\ marked = {}
    /\ receivers = 0
    /\ instances = {}
    /\ subject_instance = {}
    /\ arg = None
    /\ last = Nothing

NextTreeConc ==
    \/ \E w \in 1..MaxWriters, p \in AccountIds, n \in Names : AddChildCheck(w, p, n)
    \/ \E w \in 1..MaxWriters : AddChildClean(w)
    \/ \E w \in 1..MaxWriters : AddChildInsert(w)
    \/ \E w \in 1..MaxWriters, s \in SystemIds : AddRootCheck(w, s)
    \/ \E w \in 1..MaxWriters : AddRootInsert(w)

SpecTreeConc == InitTreeConc /\ [][NextTreeConc]_vars

\* C26: however concurrent add_child and add_root_account calls interleave,
\* a call either creates its account or fails with the conflict error of its
\* operation, never with an error of the store or of validation, and no
\* parent has two children of one name and no system two roots.
C26_ConcurrentCreation ==
    /\ last.op = "Account.add_child" => last.err \in {NoError, ValueError}
    /\ last.op = "AccountSystem.add_root_account"
           => last.err \in {NoError, InvalidAccountingOperation}
    /\ \A a \in accounts, b \in accounts :
           (a.id # b.id /\ a.parent # None /\ a.parent = b.parent) => a.name # b.name
    /\ \A s \in SystemIds : Cardinality(Roots(s)) <= 1

-----------------------------------------------------------------------------
(* The entry and exit points of trajectories, under SpecMoney              *)

\* Trajectory.target_system: self.entry_point.system, of None when the
\* trajectory has no entry point
target_system(t) ==
    IF t.entry_point = None THEN Raise(AttributeError)
    ELSE Ok(Row(accounts, t.entry_point).system)

\* C27: every stored trajectory has its entry point and its exit point both
\* set or both unset, is internal exactly when its exit point is unset, and
\* has a target system when it is not internal.
C27_NullPairing ==
    \A t \in trajectories :
        /\ (t.entry_point = None) <=> (t.exit_point = None)
        /\ trajectory_is_internal(t) <=> (t.exit_point = None)
        /\ ~ trajectory_is_internal(t) => target_system(t).err = NoError

-----------------------------------------------------------------------------
(* Reading the ledger of an account: SpecLedgerRead                        *)

\* three transactions, the first older than the other two, which have the
\* same date
DatedTransactions ==
    {[id |-> 1, issuer |-> 1, source |-> 1, split_set |-> {1}, date |-> 1],
     [id |-> 2, issuer |-> 1, source |-> 1, split_set |-> {1}, date |-> 2],
     [id |-> 3, issuer |-> 1, source |-> 1, split_set |-> {1}, date |-> 2]}

\* LedgerEntry.date
entry_date(e) == Row(transactions, e.transaction).date

\* the orders in which the store may return the rows of a table
Orders(S) ==
    {f \in [1..Cardinality(S) -> S] : \A i, j \in 1..Cardinality(S) :
                                          f[i] = f[j] => i = j}

\* Account.ledger_entries: entry_set.all().order_by('-transaction__date'),
\* the entries by falling date; the store is free in the order of the
\* entries of one date
ledger_entries_ordered(account) ==
    {f \in Orders(ledger_entries(account)) :
         \A i, j \in 1..Len(f) : i < j => entry_date(f[i]) >= entry_date(f[j])}

\* list(account.ledger_entries)
LedgerRead(account) ==
    /\ \E f \in ledger_entries_ordered(account) :
           last' = Did("Account.ledger_entries", NoError, f)
    /\ arg' = [account |-> account, pk |-> None]
    /\ UNCHANGED <<treeVars, moneyVars, entries, writers, invoiceVars,
                   subjectiveVars>>

InitLedgerRead ==
    /\ subjects = {1, 2}
    /\ systems = MoneySystems
    /\ accounts = MoneyAccounts
    /\ flows = LedgerFlows
    /\ trajectories = LedgerTrajectories
    /\ transactions = DatedTransactions
    /\ entries = {}
    /\ writers = NoWriters
    /\ invoices = {}
    /\ hooks = <<>>
    /\ subjective_models = {}
    /\ marked = {}
    /\ receivers = 0
    /\ instances = {}
    /\ subject_instance = {}
    /\ arg = NoEntry
    /\ last = Nothing

NextLedgerRead ==
    \/ \E x \in {t.id : t \in transactions}, pk \in 0..MaxKey :
           LedgerEntrySave(3, x, pk)
    \/ LedgerRead(3)

SpecLedgerRead == InitLedgerRead /\ [][NextLedgerRead]_vars

\* C28: the entries of a ledger are read newest date first, those of one
\* date by falling entry_id (so that a ledger is read in one order only).
C28_LedgerOrder ==
    last.op = "Account.ledger_entries" =>
        \A i, j \in 1..Len(last.res) :
            i < j => \/ entry_date(last.res[i]) > entry_date(last.res[j])
                     \/ /\ entry_date(last.res[i]) = entry_date(last.res[j])
                        /\ last.res[i].entry_id >= last.res[j].entry_id

-----------------------------------------------------------------------------
(* Classification of transactions, under SpecMoney                         *)

\* the attributes of a Transaction instance: its fields, the reverse
\* relation of LedgerEntry.transaction and its properties
TransactionAttributes ==
    {"id", "date", "description", "issuer", "source", "split_set", "kind",
     "entry_set", "splits", "is_split", "is_internal", "is_simple"}

\* reading an attribute of a Transaction instance
getattr_transaction(name) ==
    IF name \in TransactionAttributes THEN NoError ELSE AttributeError

\* Transaction.is_split: len(self.components) > 1
transaction_is_split(x) ==
    IF getattr_transaction("components") # NoError THEN Raise(AttributeError)
    ELSE Ok(Cardinality(SplitsOf(x)) > 1)

\* Transaction.is_internal: no trajectory of self.splits that is not internal
transaction_is_internal(x) ==
    Ok(\A t \in SplitsOf(x) : trajectory_is_internal(t))

\* Transaction.is_simple: self.is_internal and not self.is_split, the
\* second operand being evaluated only when the first is true
transaction_is_simple(x) ==
    IF ~ transaction_is_internal(x).val THEN Ok(FALSE)
    ELSE IF transaction_is_split(x).err # NoError
    THEN Raise(transaction_is_split(x).err)
    ELSE Ok(~ transaction_is_split(x).val)

\* C29: of every stored transaction, is_split is true exactly when it has
\* more than one trajectory, is_internal exactly when all its trajectories
\* are internal, is_simple exactly when it is internal and not split.
C29_Classification ==
    \A x \in transactions :
        LET several == Cardinality(SplitsOf(x)) > 1
            all_internal == \A t \in SplitsOf(x) : t.exit_point = None
        IN  /\ transaction_is_split(x) = Ok(several)
            /\ transaction_is_internal(x) = Ok(all_internal)
            /\ transaction_is_simple(x) = Ok(all_internal /\ ~ several)

-----------------------------------------------------------------------------
(* Deleting a subject whose transactions reach other systems: SpecDelete   *)

\* Subject 1 issued two transactions: the first from its account /w through
\* its expense account /e and the income account /i of system 2 to the
\* account /w of system 2, the second inside system 2, on the account /w.
DeleteFlows ==
    {[id |-> 1, account |-> 3, amount |-> 1],
     [id |-> 2, account |-> 7, amount |-> -1],
     [id |-> 3, account |-> 7, amount |-> 1]}

DeleteTrajectories ==
    {[id |-> 1, entry_point |-> 6, exit_point |-> 5, target |-> 2],
     [id |-> 2, entry_point |-> None, exit_point |-> None, target |-> 3]}

DeleteTransactions ==
    {[id |-> 1, issuer |-> 1, source |-> 1, split_set |-> {1}],
     [id |-> 2, issuer |-> 1, source |-> 3, split_set |-> {2}]}

\* the accounts whose ledgers are written: /w of system 1, /w of system 2
DeleteAccounts == {3, 7}

InitDelete ==
    /\ subjects = {1, 2}
    /\ systems = MoneySystems
    /\ accounts = MoneyAccounts
    /\ flows = DeleteFlows
    /\ trajectories = DeleteTrajectories
    /\ transactions = DeleteTransactions
    /\ entries = {}
    /\ writers = NoWriters
    /\ invoices = {}
    /\ hooks = <<>>
    /\ subjective_models = {}
    /\ marked = {}
    /\ receivers = 0
    /\ instances = {}
    /\ subject_instance = {}
    /\ arg = NoEntry
    /\ last = Nothing

NextDelete ==
    \/ \E a \in DeleteAccounts \cap {b.id : b \in accounts},
          x \in {t.id : t \in transactions}, pk \in 0..MaxKey :
           LedgerEntrySave(a, x, pk)
    \/ \E subj \in subjects : SubjectDelete(subj)

SpecDelete == InitDelete /\ [][NextDelete]_vars

\* the accounts of the systems of the subjects other than subj
AccountsOfOthers(subj) ==
    {a.id : a \in {b \in MoneyAccounts :
                       Row(MoneySystems, b.system).owner # subj}}

\* C30: deleting a subject leaves the ledger of every account of the other
\* systems as it was: the same entries with the same entry_ids.
C30_DeleteFrame ==
    [][\A subj \in {1, 2} :
           (subj \in subjects /\ subj \notin subjects')
               => \A a \in AccountsOfOthers(subj) :
                      ledger_entries(a)' = ledger_entries(a)]_vars

====
